---- MODULE Spec2Model ----
(***************************************************************************)
(* A model of the synchronization engine of src/main.py: the timestamp     *)
(* normalisation (clean_iso_datetime), the up-to-date check                *)
(* (get_datastream_check), the paged fetch (fetch_new_observations,        *)
(* fetch_all_observations), the writer (insert_observations) and the two   *)
(* operations that drive them (populate_single_thing, update_datastreams). *)
(*                                                                         *)
(* Strings are sequences of one-character strings, compared the way Python *)
(* compares str values (by code point, a proper prefix being smaller).     *)
(* A timestamp "2024-01-01T00:00:0d[.f][Z]" is written without the part    *)
(* that is the same in every timestamp of a run: <<"T", d, ".", f, "Z">>.  *)
(* None and the empty string are both <<>>: the code only ever tests them  *)
(* for truth.                                                              *)
(***************************************************************************)
EXTENDS Integers, Sequences, FiniteSets, TLC

\* ---------------------------------------------------------------- bounds
\* Seconds a timestamp may name: "1" .. MaxSec.
MaxSec == 2
\* Observations the remote holds at most.
MaxObs == 4
\* Observations upstream records while the operator works.
MaxGrow == 3
\* The largest max-records value the operator enters (besides one beyond fast mode).
MaxLimit == 4
\* page_size=1000 of fetch_new_observations and fetch_all_observations, scaled.
PAGE_SIZE == 2
\* BATCH_SIZE = 1000, scaled.
BATCH_SIZE == 2
\* The limit update_datastreams uses when the count is unknown (1000), scaled.
UPDATE_LIMIT == 2
\* fast_mode: limit <= 10 * page_size.
FAST_FACTOR == 10

\* ---------------------------------------------------------------- strings
Digits == <<"0", "1", "2", "3", "4", "5", "6", "7", "8", "9">>

DigitChar(n) == Digits[n + 1]

DigitVal(c) == CHOOSE n \in 0..9 : Digits[n + 1] = c

\* The code point order of the characters the model's strings are made of.
Ord(c) ==
  CASE c = "(" -> 40
    [] c = "." -> 46
    [] c = "T" -> 84
    [] c = "Z" -> 90
    [] OTHER -> 48 + DigitVal(c)

\* Python's a < b on str.
RECURSIVE StrLess(_, _)
StrLess(a, b) ==
  IF b = <<>> THEN FALSE
  ELSE IF a = <<>> THEN TRUE
  ELSE IF Head(a) = Head(b) THEN StrLess(Tail(a), Tail(b))
  ELSE Ord(Head(a)) < Ord(Head(b))

StrLeq(a, b) == a = b \/ StrLess(a, b)

\* c in s
Contains(s, c) == \E i \in 1..Len(s) : s[i] = c

\* s.split(c)[0]
BeforeFirst(s, c) ==
  IF Contains(s, c)
  THEN SubSeq(s, 1, (CHOOSE i \in 1..Len(s) : s[i] = c /\ \A j \in 1..(i - 1) : s[j] # c) - 1)
  ELSE s

EndsWith(s, c) == Len(s) > 0 /\ s[Len(s)] = c

StartsWith(s, c) == Len(s) > 0 /\ s[1] = c

\* s[:-1] if s.endswith("Z") else s
StripZ(s) == IF EndsWith(s, "Z") THEN SubSeq(s, 1, Len(s) - 1) ELSE s

\* s.replace("TT", "T")
RECURSIVE ReplaceTT(_)
ReplaceTT(s) ==
  IF Len(s) < 2 THEN s
  ELSE IF s[1] = "T" /\ s[2] = "T" THEN <<"T">> \o ReplaceTT(SubSeq(s, 3, Len(s)))
  ELSE <<s[1]>> \o ReplaceTT(Tail(s))

Truthy(s) == s # <<>>

\* a or b
Or(a, b) == IF Truthy(a) THEN a ELSE b

clean_iso_datetime(ts) ==
  LET t1 == ReplaceTT(ts)
      t2 == IF Contains(t1, ".") THEN BeforeFirst(t1, ".") ELSE t1
  IN  IF EndsWith(t2, "Z") THEN t2 ELSE t2 \o <<"Z">>

\* ---------------------------------------------------------------- timestamps
Secs == 1..MaxSec

\* "…T…:0d Z" and "…T…:0d.5Z": the two shapes the remote delivers in a sync.
Whole(d) == <<"T", DigitChar(d), "Z">>

Frac(d) == <<"T", DigitChar(d), ".", "5", "Z">>

ApiTimes == {Whole(d) : d \in Secs} \cup {Frac(d) : d \in Secs}

\* The instant a timestamp of the remote names, in half seconds.
Instant(ts) ==
  LET t == ReplaceTT(ts)
  IN  2 * DigitVal(t[2]) + (IF Contains(t, ".") THEN 1 ELSE 0)

\* ---------------------------------------------------------------- state
VARIABLES
  remote,        \* the stream's observations upstream, as $orderby=phenomenonTime desc lists them
  filterStatus,  \* the status this server build answers a $filter request with (200: honoured)
  committed,     \* observations table: the committed rows, in insertion order
  txn,           \* rows the open transaction has inserted and not committed
  foiCommitted,  \* features_of_interest table: committed ids
  foiTxn,        \* ids the open transaction has inserted and not committed
  pc,            \* "idle", "fast", "fallback", "insert"
  run,           \* the running operation (when idle: the one that ended last)
  fs,            \* locals of fetch_new_observations / fetch_all_observations
  ins,           \* locals of insert_observations, and the FeatureOfInterest ids it requested
  check,         \* the result of the last get_datastream_check
  dirty,         \* the remote changed since the last operation started
  plan,          \* the answers of an operator who gives the same ones every time, if fixed
  loop,          \* the loop over the datastreams chosen for a populate or an update
  req,           \* a request of get_api_data: its attempts and how it ended
  norm,          \* two timestamps and what clean_iso_datetime made of them
  meta           \* the last count request: who made it, its answer, the count reported

\* The variables of the work on one stream and its store.
one == <<remote, filterStatus, committed, txn, foiCommitted, foiTxn, pc, run, fs, ins, check,
         dirty, plan>>

\* The variables the operations on one stream leave alone.
aux == <<loop, req, norm, meta>>

vars ==
  <<remote, filterStatus, committed, txn, foiCommitted, foiTxn, pc, run, fs, ins, check, dirty, plan,
    aux>>

\* The stream synchronized.
DS == 1

NoLimit == -1

\* What the operator may enter as max-records: nothing, 0..MaxLimit, or a value beyond fast mode.
Limits == {NoLimit} \cup 0..MaxLimit \cup {FAST_FACTOR * PAGE_SIZE + 1}

\* "YYYY-MM-DD" + "T00:00:00Z", or nothing.
StartTimes == {<<>>} \cup {Whole(d) : d \in Secs}

Min(a, b) == IF a < b THEN a ELSE b

Ids(rows) == {rows[i].id : i \in 1..Len(rows)}

\* The list returned whole, without the slice.
TakeAll(s, n) == s

\* s[:n]
Take(s, n) == SubSeq(s, 1, Min(n, Len(s)))

\* ---------------------------------------------------------------- the remote API
NoFilter == [op |-> "none", t |-> <<>>]

\* $filter=phenomenonTime ge|gt datetime'<t>' as a server that honours it evaluates it.
Matches(o, f) ==
  CASE f.op = "ge" -> Instant(o.t) >= Instant(f.t)
    [] f.op = "gt" -> Instant(o.t) > Instant(f.t)
    [] OTHER -> TRUE

Matching(f) == SelectSeq(remote, LAMBDA o : Matches(o, f))

\* GET /Datastreams(id)/Observations?$top=..&$skip=..&$orderby=phenomenonTime desc[&$filter=..]
\* answered by a server that returns at most cap records of the page asked for.
Page(f, skip, cap) ==
  LET all == Matching(f)
  IN  SubSeq(all, skip + 1, Min(skip + cap, Len(all)))

\* The page sizes a server may cut a request for PAGE_SIZE records down to.
Caps == 1..PAGE_SIZE

\* FeatureOfInterest of an observation.
FoiOf(id) == 1 + (id % 2)

\* ---------------------------------------------------------------- the local store
View == committed \o txn

\* SELECT MAX(phenomenon_time_start) FROM observations WHERE datastream_id = ds
MaxTime(rows, ds) ==
  LET mine == {i \in 1..Len(rows) : rows[i].ds = ds}
  IN  IF mine = {} THEN <<>>
      ELSE rows[CHOOSE i \in mine : \A j \in mine : StrLeq(rows[j].t, rows[i].t)].t

\* SELECT MIN(phenomenon_time_start) FROM observations WHERE datastream_id = ds
MinTime(rows, ds) ==
  LET mine == {i \in 1..Len(rows) : rows[i].ds = ds}
  IN  IF mine = {} THEN <<>>
      ELSE rows[CHOOSE i \in mine : \A j \in mine : StrLeq(rows[i].t, rows[j].t)].t

\* ---------------------------------------------------------------- get_datastream_check
\* "(no observations)" and "(error: ...)": all the code asks of them is startswith("(").
Paren == <<"(">>

\* A value of a JSON document: a number, or a string.
IntValue(n) == [int |-> n]

StrValue(text) == [str |-> text]

\* count_response.get("@iot.count", default), the response being <<>> when it has no
\* such field and <<value>> when it has.
DictGet(body, default) == IF body = <<>> THEN default ELSE body[1]

\* What a count request ($top=0&$count=true) may give: an exception, a response without
\* the field, a response with the count n.
CountAnswers(n) ==
  {[err |-> TRUE, body |-> <<>>], [err |-> FALSE, body |-> <<>>],
   [err |-> FALSE, body |-> <<IntValue(n)>>]}

\* A count of the direct comparison that does not look at its outcome.
NewObsCountOne(up_to_date) == 1

\* new_obs_count = 1 if not up_to_date else 0
NewObsCount(up_to_date) == IF up_to_date THEN 0 ELSE 1

SameNewestRaw(newest_db_time, newest_api_time) == newest_db_time = newest_api_time

\* if clean_db_time == clean_api_time
SameNewest(newest_db_time, newest_api_time) ==
  clean_iso_datetime(newest_db_time) = clean_iso_datetime(newest_api_time)

\* api: [err, oldest, newest] is what the two range lookups gave (<<>>: an empty list);
\* db: <<MIN, MAX>> of the store (<<>>: NULL); count_resp: [err, body] is what the count
\* request gave (err: it raised; body: the response); latest_resp:
\* [err, t] is what the unfiltered $top=1 request gave.
get_datastream_check(api, db, count_resp, latest_resp) ==
  LET oldest_api_time == IF api.err THEN Paren ELSE Or(api.oldest, Paren)
      newest_api_time == IF api.err THEN Paren ELSE Or(api.newest, Paren)
      oldest_db_time == Or(db[1], Paren)
      newest_db_time == Or(db[2], Paren)
      clean_db_time == clean_iso_datetime(newest_db_time)
      base == [oldest_api_time |-> oldest_api_time, oldest_db_time |-> oldest_db_time,
               newest_api_time |-> newest_api_time, newest_db_time |-> newest_db_time]
      res(up, n, extra) ==
        base @@ [up_to_date |-> up, new_obs_count |-> n, extra_requests |-> extra]
  IN  IF StartsWith(newest_db_time, "(")
      THEN IF count_resp.err THEN res(FALSE, -1, 1)
           ELSE LET total_api_count == DictGet(count_resp.body, IntValue(-1)).int
                IN  res(total_api_count = 0, total_api_count, 1)
      ELSE IF StartsWith(newest_api_time, "(") THEN res(FALSE, -1, 0)
      ELSE IF SameNewest(newest_db_time, newest_api_time) THEN res(TRUE, 0, 0)
      ELSE IF latest_resp.err THEN res(FALSE, -1, 1)
      ELSE LET up == StrLeq(latest_resp.t, clean_db_time)
           IN  res(up, NewObsCount(up), 1)

NoCheck == [up_to_date |-> FALSE, new_obs_count |-> -1, extra_requests |-> 0,
            oldest_api_time |-> <<>>, oldest_db_time |-> <<>>,
            newest_api_time |-> <<>>, newest_db_time |-> <<>>]

\* ---------------------------------------------------------------- fetch
\* params["$filter"] of fetch_new_observations
FilterFor(start_time, latest_time) ==
  IF Truthy(start_time) THEN [op |-> "ge", t |-> StripZ(start_time)]
  ELSE IF Truthy(latest_time) THEN [op |-> "gt", t |-> StripZ(latest_time)]
  ELSE NoFilter

\* if latest_time and "." in latest_time: latest_time = latest_time.split(".")[0] + "Z"
LatestTime(rows, ds) ==
  LET latest_time == MaxTime(rows, ds)
  IN  IF Truthy(latest_time) /\ Contains(latest_time, ".")
      THEN BeforeFirst(latest_time, ".") \o <<"Z">>
      ELSE latest_time

FastMode(limit) == limit # NoLimit /\ limit <= FAST_FACTOR * PAGE_SIZE

TotalPages(limit) == (limit + PAGE_SIZE - 1) \div PAGE_SIZE

\* A limit test that is never met.
LimitReachedNever(limit, fetched) == FALSE

\* The test without its guard on limit: no limit counts as one that is reached.
LimitReachedAny(limit, fetched) == fetched >= limit

\* if limit and fetched >= limit
LimitReached(limit, fetched) == limit # NoLimit /\ limit # 0 /\ fetched >= limit

\* if after_time and obs_time < after_time
OlderThan(obs_time, after_time) == Truthy(after_time) /\ StrLess(obs_time, after_time)

\* The loop with the early exit turned into a filter: an older record is passed over.
RECURSIVE ScanPageFilter(_, _, _, _, _)
ScanPageFilter(page, k, observations, after_time, limit) ==
  IF k > Len(page) THEN [observations |-> observations, returned |-> FALSE]
  ELSE IF OlderThan(page[k].t, after_time)
       THEN ScanPageFilter(page, k + 1, observations, after_time, limit)
  ELSE LET more == Append(observations, page[k])
       IN  IF LimitReached(limit, Len(more))
           THEN [observations |-> more, returned |-> TRUE]
           ELSE ScanPageFilter(page, k + 1, more, after_time, limit)

\* The for loop of fetch_all_observations over one page, from its k-th record: the list
\* it has built, and whether it returned (early exit or limit) instead of ending.
RECURSIVE ScanPage(_, _, _, _, _)
ScanPage(page, k, observations, after_time, limit) ==
  IF k > Len(page) THEN [observations |-> observations, returned |-> FALSE]
  ELSE IF OlderThan(page[k].t, after_time)
       THEN [observations |-> observations, returned |-> TRUE]
  ELSE LET more == Append(observations, page[k])
       IN  IF LimitReached(limit, Len(more))
           THEN [observations |-> more, returned |-> TRUE]
           ELSE ScanPage(page, k + 1, more, after_time, limit)

\* The locals of a fetch, and known: how many observations the remote held when the
\* loop that is running made its start.
NoFetch == [start_time |-> <<>>, limit |-> NoLimit, latest_time |-> <<>>,
            observations |-> <<>>, skip |-> 0, page_num |-> 0, known |-> 0]

NoInsert == [datastream_id |-> 0, i |-> 0, count_since_commit |-> 0, foi_fetched |-> <<>>]

\* What is recorded of an operation: the watermark it started from, whether a request
\* failed, the commits it made, whether it ended without an exception, how it relates to
\* the operation before it, how its fetch went, and the status of the response that
\* fetch_new_observations raised, if it raised one, with the attempts made of that
\* request.
NoRun == [op |-> "none", latest0 |-> <<>>, fault |-> FALSE, commits |-> 0, ok |-> TRUE,
          repeat |-> FALSE, resume |-> 0, path |-> "none", exit |-> "none",
          dropped |-> FALSE, status |-> 200, attempts |-> 0]

\* ---------------------------------------------------------------- insert_observations
InsertObservationAlways(rows, pending, row) == Append(pending, row)

\* INSERT INTO observations ... ON CONFLICT (observation_id) DO NOTHING: the rows of the
\* open transaction after the statement.
InsertObservation(rows, pending, row) ==
  IF row.id \in Ids(rows \o pending) THEN pending ELSE Append(pending, row)

\* A writer that leaves the FeatureOfInterest out.
InsertFoiSkip(ids, pending, id) == pending

\* INSERT INTO features_of_interest ... ON CONFLICT (feature_of_interest_id) DO NOTHING
InsertFoi(ids, pending, id) ==
  IF id \in ids \cup pending THEN pending ELSE pending \cup {id}

\* foi = fetch_feature_of_interest(obs_id): the observation and its FeatureOfInterest
\* are requested from the remote; fetched lists the ids this call has requested so far.
fetch_feature_of_interest(fetched, obs) == Append(fetched, obs.foi)

\* The row insert_observations builds of an observation of the API.
RowOf(datastream_id, obs) ==
  [id |-> obs.id, ds |-> datastream_id, t |-> clean_iso_datetime(obs.t), foi |-> obs.foi]

\* A writer that never commits inside the loop.
BatchNever(count_since_commit, batch_size) == FALSE

\* if count_since_commit >= batch_size: the commit inside the loop is due.
BatchFull(count_since_commit, batch_size) == count_since_commit >= batch_size

\* A writer that returns without the commit after the loop.
FinalCommitNever(count_since_commit) == FALSE

\* if count_since_commit > 0: the commit after the loop is due.
FinalCommitDue(count_since_commit) == count_since_commit > 0

\* A commit that leaves the table holding the rows of the transaction alone.
CommitReplace(rows, pending) == pending

\* conn.commit(): the rows of the transaction join the table.
Commit(rows, pending) == rows \o pending

\* ---------------------------------------------------------------- operations
\* The operation ends: the connection is closed, what it did not commit is gone.
End(r, ok) ==
  /\ pc' = "idle"
  /\ run' = [r EXCEPT !.ok = ok]
  /\ fs' = NoFetch
  /\ ins' = NoInsert
  /\ txn' = <<>>
  /\ foiTxn' = {}

\* An exception handler that commits what the transaction holds.
RaiseCommit(r) ==
  /\ End([r EXCEPT !.fault = TRUE], FALSE)
  /\ committed' = committed \o txn
  /\ foiCommitted' = foiCommitted \cup foiTxn

\* An exception leaves fetch_new_observations or insert_observations: populate_single_thing
\* rolls back and closes, update_datastreams lets it end the program.
Raise(r) ==
  /\ End([r EXCEPT !.fault = TRUE], FALSE)
  /\ UNCHANGED <<committed, foiCommitted>>

\* fetch_new_observations returned observations: the caller hands them to
\* insert_observations, which returns at once when there are none.
Return(r, observations) ==
  IF observations = <<>>
  THEN End(r, TRUE) /\ UNCHANGED <<committed, foiCommitted>>
  ELSE /\ pc' = "insert"
       /\ run' = r
       /\ fs' = [fs EXCEPT !.observations = observations]
       /\ ins' = [datastream_id |-> DS, i |-> 1, count_since_commit |-> 0, foi_fetched |-> <<>>]
       /\ UNCHANGED <<committed, txn, foiCommitted, foiTxn>>

\* fetch_all_observations starts (its own observations, skip and fetched).
StartFallback(r, f) ==
  /\ pc' = "fallback"
  /\ run' = [r EXCEPT !.path = "fallback"]
  /\ fs' = [f EXCEPT !.observations = <<>>, !.skip = 0, !.page_num = 0,
                      !.known = Len(remote)]
  /\ ins' = NoInsert
  /\ UNCHANGED <<committed, txn, foiCommitted, foiTxn>>

\* The operation starts: what it is, and how it relates to the one before it.
StartRun(op) ==
  LET same == plan.fixed /\ run.op = op /\ ~dirty
  IN  [op |-> op, latest0 |-> MaxTime(committed, DS),
       fault |-> FALSE, commits |-> 0, ok |-> TRUE,
       repeat |-> same /\ run.ok /\ ~run.fault,
       resume |-> IF same /\ ((~run.ok /\ run.commits > 0)
                              \/ (run.resume > 0 /\ run.ok /\ ~run.fault))
                  THEN Min(run.resume + 1, 2) ELSE 0,
       path |-> "none", exit |-> "none", dropped |-> FALSE, status |-> 200,
       attempts |-> 0]

\* fetch_new_observations up to its first request.
fetch_new_observations(r, limit, start_time) ==
  LET latest_time == LatestTime(View, DS)
      f == [start_time |-> start_time, limit |-> limit, latest_time |-> latest_time,
            observations |-> <<>>, skip |-> 0, page_num |-> 0, known |-> Len(remote)]
  IN  IF FastMode(limit)
      THEN IF TotalPages(limit) = 0
           THEN Return([r EXCEPT !.path = "filtered", !.exit = "pages"], <<>>)
           ELSE /\ pc' = "fast"
                /\ run' = [r EXCEPT !.path = "filtered"]
                /\ fs' = f
                /\ ins' = NoInsert
                /\ UNCHANGED <<committed, txn, foiCommitted, foiTxn>>
      ELSE StartFallback(r, f)

\* populate_single_thing for the datastream chosen, the operator answering the prompts
\* with start_time and limit.
populate_single_thing(start_time, limit) ==
  /\ pc = "idle"
  /\ fetch_new_observations(StartRun("populate"), limit, start_time)
  /\ dirty' = FALSE
  /\ UNCHANGED <<remote, filterStatus, check, plan, aux>>

\* What the remote answers the requests of get_datastream_check with.
ApiRange(err) ==
  [err |-> err,
   oldest |-> IF remote = <<>> THEN <<>> ELSE remote[Len(remote)].t,
   newest |-> IF remote = <<>> THEN <<>> ELSE remote[1].t]

CountResponses == CountAnswers(Len(remote))

LatestResponses ==
  {[err |-> TRUE, t |-> <<>>]}
    \cup (IF remote = <<>> THEN {} ELSE {[err |-> FALSE, t |-> remote[1].t]})

\* update_datastreams for the datastream chosen; the operator confirms the fetch or not.
update_datastreams(confirm) ==
  /\ pc = "idle"
  /\ \E err \in BOOLEAN, count_resp \in CountResponses, latest_resp \in LatestResponses :
       LET range_info == get_datastream_check(ApiRange(err),
                           <<MinTime(View, DS), MaxTime(View, DS)>>, count_resp, latest_resp)
           failed == \/ err
                     \/ /\ range_info.extra_requests = 1
                        /\ IF StartsWith(range_info.newest_db_time, "(")
                           THEN count_resp.err ELSE latest_resp.err
           r == [StartRun("update") EXCEPT !.fault = failed]
           limit == IF range_info.new_obs_count > 0
                    THEN range_info.new_obs_count ELSE UPDATE_LIMIT
       IN  IF range_info.up_to_date
           THEN End([r EXCEPT !.exit = "uptodate"], TRUE) /\ UNCHANGED <<committed, foiCommitted>>
           ELSE IF ~confirm
           THEN End([r EXCEPT !.exit = "skipped"], TRUE) /\ UNCHANGED <<committed, foiCommitted>>
           ELSE fetch_new_observations(r, limit, <<>>)
  /\ dirty' = FALSE
  /\ UNCHANGED <<remote, filterStatus, check, plan, aux>>

\* ---------------------------------------------------------------- the HTTP clients
\* Retry(total=5, ...): the retries the session allows a request.
RETRY_TOTAL == 5

\* status_forcelist of the session's Retry.
status_forcelist == {500, 502, 503, 504, 429}

\* What an attempt may end with: a response status, or 0 for no response (a connection
\* error or a timeout).
Statuses == {0, 200, 400, 404} \cup status_forcelist

\* A retry policy that takes every failure for a transient one.
RetryAny(status) == status # 200

\* The failures the session's adapter answers with another attempt of a GET.
Retryable(status) == status = 0 \/ status \in status_forcelist

\* requests.get(url, params=params): a request outside the session, whose adapter
\* retries nothing.
PLAIN_RETRIES == 0

\* The attempts a client with the given retries has made of a request when it gives
\* the failure status to its caller.
Attempts(retries, status) == IF Retryable(status) THEN retries + 1 ELSE 1

\* The statuses a request may fail with besides the build's answer to $filter
\* (0: no response at all, a ConnectionError or a timeout).
FailureStatuses == {0, 500, 503}

\* except requests.exceptions.HTTPError of fetch_new_observations: 400 and 500 start the
\* fallback, any other status (and an exception that is no HTTPError) is raised.
FastError(r, status) ==
  IF status \in {400, 500}
  THEN StartFallback(r, fs)
  ELSE Raise([r EXCEPT !.status = status, !.attempts = Attempts(PLAIN_RETRIES, status)])

\* $skip moved on by the page size asked for.
NextSkipRequested(skip, page) == skip + PAGE_SIZE

\* skip += len(page)
NextSkip(skip, page) == skip + Len(page)

\* The pass without the test of the first page: a short first page is kept.
FastServedNoSwitch(page) ==
  LET observations == fs.observations \o page
  IN  IF page = <<>>
      THEN Return([run EXCEPT !.exit = "empty"], Take(fs.observations, fs.limit))
      ELSE IF Len(observations) >= fs.limit
      THEN Return([run EXCEPT !.exit = "limit"], Take(observations, fs.limit))
      ELSE IF fs.page_num + 1 = TotalPages(fs.limit)
      THEN Return([run EXCEPT !.exit = "pages"], Take(observations, fs.limit))
      ELSE /\ fs' = [fs EXCEPT !.observations = observations,
                               !.skip = NextSkip(@, page), !.page_num = @ + 1]
           /\ UNCHANGED <<pc, run, ins, committed, txn, foiCommitted, foiTxn>>

\* One pass of the fast-mode loop of fetch_new_observations on the page received.
FastServed(page) ==
  LET observations == fs.observations \o page
      pageR == [run EXCEPT !.exit = "pages"]
  IN  IF fs.page_num = 0 /\ Len(page) < PAGE_SIZE
      THEN StartFallback(run, fs)
      ELSE IF page = <<>>
      THEN Return([run EXCEPT !.exit = "empty"], Take(fs.observations, fs.limit))
      ELSE IF Len(observations) >= fs.limit
      THEN Return([run EXCEPT !.exit = "limit"], Take(observations, fs.limit))
      ELSE IF fs.page_num + 1 = TotalPages(fs.limit)
      THEN Return(pageR, Take(observations, fs.limit))
      ELSE /\ fs' = [fs EXCEPT !.observations = observations,
                               !.skip = NextSkip(@, page), !.page_num = @ + 1]
           /\ UNCHANGED <<pc, run, ins, committed, txn, foiCommitted, foiTxn>>

\* One request of the fast-mode loop and what the loop does with the answer.
FastPage ==
  /\ pc = "fast"
  /\ LET filter == FilterFor(fs.start_time, fs.latest_time)
     IN  \/ /\ filter.op # "none"
            /\ filterStatus # 200
            /\ FastError(run, filterStatus)
         \/ \E status \in FailureStatuses : FastError([run EXCEPT !.fault = TRUE], status)
         \/ /\ filter.op = "none" \/ filterStatus = 200
            /\ \E cap \in Caps : FastServed(Page(filter, fs.skip, cap))
  /\ UNCHANGED <<remote, filterStatus, check, dirty, plan, aux>>

\* One pass of the while loop of fetch_all_observations on the page received.
FallbackServed(page) ==
  LET scan == ScanPage(page, 1, fs.observations, Or(fs.latest_time, fs.start_time), fs.limit)
      early == Len(scan.observations) < Len(fs.observations) + Len(page)
               /\ ~LimitReached(fs.limit, Len(scan.observations))
  IN  IF page = <<>>
      THEN Return([run EXCEPT !.exit = "empty"], fs.observations)
      ELSE IF scan.returned
      THEN Return([run EXCEPT !.exit = IF early THEN "early" ELSE "limit"], scan.observations)
      ELSE /\ fs' = [fs EXCEPT !.observations = scan.observations, !.skip = NextSkip(@, page)]
           /\ UNCHANGED <<pc, run, ins, committed, txn, foiCommitted, foiTxn>>

\* One request of fetch_all_observations: any exception ends the loop with what was
\* collected so far.
FallbackPage ==
  /\ pc = "fallback"
  /\ \/ Return([run EXCEPT !.fault = TRUE, !.exit = "error"], fs.observations)
     \/ \E cap \in Caps : FallbackServed(Page(NoFilter, fs.skip, cap))
  /\ UNCHANGED <<remote, filterStatus, check, dirty, plan, aux>>

\* One pass of the loop of insert_observations, with the final commit after the last.
InsertStep ==
  /\ pc = "insert"
  /\ LET obs == fs.observations[ins.i]
         fetched == fetch_feature_of_interest(ins.foi_fetched, obs)
         foi1 == InsertFoi(foiCommitted, foiTxn, obs.foi)
         txn1 == InsertObservation(committed, txn, RowOf(ins.datastream_id, obs))
         count == ins.count_since_commit + 1
         last == ins.i = Len(fs.observations)
         batch == BatchFull(count, BATCH_SIZE)
         final == last /\ FinalCommitDue(IF batch THEN 0 ELSE count)
     IN  \/ Raise([run EXCEPT !.dropped = txn # <<>>])
         \/ IF batch \/ final
            THEN /\ committed' = Commit(committed, txn1)
                 /\ foiCommitted' = foiCommitted \cup foi1
                 /\ IF last
                    THEN End([run EXCEPT !.commits = Min(@ + 1, 2)], TRUE)
                    ELSE /\ txn' = <<>>
                         /\ foiTxn' = {}
                         /\ ins' = [ins EXCEPT !.i = @ + 1, !.count_since_commit = 0,
                                           !.foi_fetched = fetched]
                         /\ run' = [run EXCEPT !.commits = Min(@ + 1, 2)]
                         /\ UNCHANGED <<pc, fs>>
            ELSE IF last
            THEN End(run, TRUE) /\ UNCHANGED <<committed, foiCommitted>>
            ELSE /\ txn' = txn1
                 /\ foiTxn' = foi1
                 /\ ins' = [ins EXCEPT !.i = @ + 1, !.count_since_commit = count,
                                   !.foi_fetched = fetched]
                 /\ UNCHANGED <<pc, run, fs, committed, foiCommitted>>
  /\ UNCHANGED <<remote, filterStatus, check, dirty, plan, aux>>

\* Upstream records a new observation, not older than the ones it holds, between two
\* requests of the client.
RemoteInsert(t) ==
  /\ pc \in {"idle", "fast", "fallback"}
  /\ Len(remote) < MaxGrow
  /\ IF remote = <<>> THEN TRUE ELSE Instant(t) >= Instant(remote[1].t)
  /\ remote' = <<[id |-> Len(remote) + 1, t |-> t, foi |-> FoiOf(Len(remote) + 1)]>> \o remote
  /\ dirty' = TRUE
  /\ UNCHANGED <<filterStatus, committed, txn, foiCommitted, foiTxn, pc, run, fs, ins, check, plan, aux>>

\* ---------------------------------------------------------------- specification
\* The statuses a server build answers a request carrying $filter with.
FilterStatuses == {200, 400, 404}

\* No run over datastreams yet: the operation, the datastreams chosen and the ones still
\* to come, the one in work, the statement the run is at, the datastreams whose pass of
\* the loop began, and the datastream whose pass raised (0: none).
NoLoop == [op |-> "none", chosen |-> <<>>, ds_indexes |-> <<>>, ds_id |-> 0, at |-> "idle",
           begun |-> {}, raised |-> 0, none |-> FALSE, rowsTxn |-> {}, rowsCommitted |-> {},
           finished |-> {}]

\* No request of get_api_data yet.
NoReq == [statuses |-> <<>>, outcome |-> "none"]

NoNorm == [a |-> <<>>, b |-> <<>>, clean_a |-> <<>>, clean_b |-> <<>>]

NoMeta == [site |-> "none", count_response |-> [err |-> FALSE, body |-> <<>>],
           raised |-> FALSE, observation_count |-> [int |-> 0]]

AuxInit == loop = NoLoop /\ req = NoReq /\ norm = NoNorm /\ meta = NoMeta

\* An operator who answers the prompts anew every time.
FreePlan == [fixed |-> FALSE, start_time |-> <<>>, limit |-> NoLimit]

Init ==
  /\ remote = <<>>
  /\ filterStatus \in FilterStatuses
  /\ committed = <<>>
  /\ txn = <<>>
  /\ foiCommitted = {}
  /\ foiTxn = {}
  /\ pc = "idle"
  /\ run = NoRun
  /\ fs = NoFetch
  /\ ins = NoInsert
  /\ check = NoCheck
  /\ dirty = FALSE
  /\ plan = FreePlan
  /\ AuxInit

Next ==
  \/ \E t \in ApiTimes : RemoteInsert(t)
  \/ \E start_time \in StartTimes, limit \in Limits : populate_single_thing(start_time, limit)
  \/ \E confirm \in BOOLEAN : update_datastreams(confirm)
  \/ FastPage
  \/ FallbackPage
  \/ InsertStep

Spec == Init /\ [][Next]_vars

\* ---------------------------------------------------------------- one remote, one plan
\* The lists a remote may hold: up to MaxObs observations with ids in the order upstream
\* recorded them, newest first.
RECURSIVE RemotesOfLen(_)
RemotesOfLen(n) ==
  IF n = 0 THEN {<<>>}
  ELSE {<<[id |-> n, t |-> t, foi |-> FoiOf(n)]>> \o older :
          <<t, older>> \in {x \in ApiTimes \X RemotesOfLen(n - 1) :
                             IF x[2] = <<>> THEN TRUE
                             ELSE Instant(x[1]) >= Instant(x[2][1].t)}}

Remotes == UNION {RemotesOfLen(n) : n \in 0..MaxObs}

\* The limits of the plans: those of Limits, and one that makes a fast loop of three
\* requests.
PlanLimits == Limits \cup {2 * PAGE_SIZE + 1}

FixedPlans == [fixed : {TRUE}, start_time : StartTimes, limit : PlanLimits]

\* A static remote and an operator who populates the stream again and again with the
\* same answers, from an empty store.
InitSync ==
  /\ remote \in Remotes
  /\ filterStatus \in FilterStatuses
  /\ committed = <<>>
  /\ txn = <<>>
  /\ foiCommitted = {}
  /\ foiTxn = {}
  /\ pc = "idle"
  /\ run = NoRun
  /\ fs = NoFetch
  /\ ins = NoInsert
  /\ check = NoCheck
  /\ dirty = FALSE
  /\ plan \in FixedPlans
  /\ AuxInit

NextSync ==
  \/ populate_single_thing(plan.start_time, plan.limit)
  \/ FastPage
  \/ FallbackPage
  \/ InsertStep

SpecSync == InitSync /\ [][NextSync]_vars

\* ---------------------------------------------------------------- the check alone
\* The shapes a timestamp of the API may have: with or without a fractional part, with
\* or without the zone marker, with the separator doubled.
Shapes(d) ==
  {Whole(d), Frac(d), <<"T", DigitChar(d)>>, <<"T", DigitChar(d), ".", "5">>,
   <<"T", "T", DigitChar(d), ".", "5">>}

CheckTimes == UNION {Shapes(d) : d \in Secs}

\* What the store holds of them: insert_observations cleans what it writes.
StoredTimes == {clean_iso_datetime(ts) : ts \in CheckTimes}

\* get_datastream_check on a store whose newest row is newest_db (<<>>: no row) against
\* a remote whose newest observation is newest_api (<<>>: none).
CheckStream(newest_api, newest_db) ==
  /\ pc = "idle"
  /\ \E err \in BOOLEAN, count_resp \in CountAnswers(0) \cup CountAnswers(1),
        latest_err \in BOOLEAN :
       LET range_info == get_datastream_check(
                           [err |-> err, oldest |-> newest_api, newest |-> newest_api],
                           <<newest_db, newest_db>>, count_resp,
                           [err |-> latest_err \/ newest_api = <<>>, t |-> newest_api])
       IN  /\ check' = range_info
           /\ meta' = IF newest_db = <<>>
                      THEN [site |-> "check", count_response |-> count_resp,
                            raised |-> FALSE,
                            observation_count |-> IntValue(range_info.new_obs_count)]
                      ELSE NoMeta
  /\ UNCHANGED <<remote, filterStatus, committed, txn, foiCommitted, foiTxn, pc, run, fs,
                 ins, dirty, plan, loop, req, norm>>

\* get_datastream_metadata: the count request goes through get_api_data, which raises
\* what it fails with; the count of the dict returned is the field or "?".
get_datastream_metadata ==
  /\ pc = "idle"
  /\ \E count_response \in CountAnswers(0) \cup CountAnswers(1) :
       meta' = [site |-> "metadata", count_response |-> count_response,
                raised |-> count_response.err,
                observation_count |->
                  IF count_response.err THEN NoMeta.observation_count
                  ELSE DictGet(count_response.body, StrValue(<<"?">>))]
  /\ UNCHANGED <<one, loop, req, norm>>

NextCheck ==
  \/ \E newest_api \in CheckTimes \cup {<<>>}, newest_db \in StoredTimes \cup {<<>>} :
       CheckStream(newest_api, newest_db)
  \/ get_datastream_metadata

SpecCheck == Init /\ [][NextCheck]_vars

\* ---------------------------------------------------------------- the writer alone
\* The records a caller may hand to insert_observations.
WriterIds == 1..2

WriterRecords == {[id |-> id, t |-> t, foi |-> FoiOf(id)] : id \in WriterIds, t \in {Whole(1), Frac(2)}}

WriterLists == UNION {[1..n -> WriterRecords] : n \in 0..BATCH_SIZE + 1}

\* insert_observations(conn, c, datastream_id, observations, BATCH_SIZE) is called.
Supply(datastream_id, observations) ==
  /\ pc = "idle"
  /\ IF observations = <<>>
     THEN UNCHANGED <<pc, fs, ins>>
     ELSE /\ pc' = "insert"
          /\ fs' = [fs EXCEPT !.observations = observations]
          /\ ins' = [datastream_id |-> datastream_id, i |-> 1, count_since_commit |-> 0,
                  foi_fetched |-> <<>>]
  /\ run' = [NoRun EXCEPT !.op = "write"]
  /\ UNCHANGED <<remote, filterStatus, committed, txn, foiCommitted, foiTxn, check, dirty, plan, aux>>

NextWriter ==
  \/ \E datastream_id \in 1..2, observations \in WriterLists :
       Supply(datastream_id, observations)
  \/ InsertStep

SpecWriter == Init /\ [][NextWriter]_vars

\* ---------------------------------------------------------------- a run over datastreams
\* The datastreams of the Thing, in the order the menu lists them.
MaxStreams == 4

\* The row of the Thing among the rows of a run (the datastreams are 1, 2, ...).
THING == 0

AllStreams == [i \in 1..MaxStreams |-> i]

\* ds_choice: 'a' (0 here) for all datastreams, or the number of one.
ChooseStreams(op, ds_choice) ==
  /\ pc = "idle"
  /\ loop.at = "idle"
  /\ LET ds_indexes == IF ds_choice = 0 THEN AllStreams ELSE <<ds_choice>>
     IN  loop' = [NoLoop EXCEPT !.op = op, !.chosen = ds_indexes, !.ds_indexes = ds_indexes,
                                !.at = "for",
                                !.rowsTxn = IF op = "populate" THEN {THING} ELSE {}]
  /\ UNCHANGED <<one, req, norm, meta>>

\* for ds_index in ds_indexes: the next datastream, or the end of the run.
ForStream ==
  /\ loop.at = "for"
  /\ IF loop.ds_indexes = <<>>
     THEN loop' = [loop EXCEPT !.at = "idle", !.ds_id = 0, !.rowsTxn = {}]
     ELSE loop' = [loop EXCEPT !.ds_id = Head(loop.ds_indexes),
                               !.ds_indexes = Tail(loop.ds_indexes),
                               !.begun = @ \cup {Head(loop.ds_indexes)},
                               !.at = IF loop.op = "populate" THEN "metadata" ELSE "check"]
  /\ UNCHANGED <<one, req, norm, meta>>

\* An exception in the body of the loop: populate_single_thing handles it outside the
\* loop (except Exception at the end of the function), update_datastreams not at all.
\* Either way the run is over.
LoopRaise == loop' = [loop EXCEPT !.at = "idle", !.raised = loop.ds_id, !.rowsTxn = {}]

\* A statement of the body that raises or goes on to the statement next.
Call(at, next) ==
  /\ loop.at = at
  /\ \/ LoopRaise
     \/ loop' = [loop EXCEPT !.at = next]
  /\ UNCHANGED <<one, req, norm, meta>>

\* get_datastream_metadata(ds_id) at the head of populate's pass.
StreamMetadata == loop.op = "populate" /\ Call("metadata", "confirm")

\* get_datastream_check(ds_id, conn) of update's pass, which catches what its requests
\* raise: up to date (continue) or not.
StreamCheck ==
  /\ loop.at = "check"
  /\ \E up_to_date \in BOOLEAN :
       loop' = [loop EXCEPT !.at = IF up_to_date THEN "for" ELSE "confirm"]
  /\ UNCHANGED <<one, req, norm, meta>>

\* The operator's y or n (n: continue).
StreamConfirm ==
  /\ loop.at = "confirm"
  /\ \E user_input \in {"y", "n"} :
       loop' = [loop EXCEPT !.at = IF user_input = "n" THEN "for" ELSE "fetch"]
  /\ UNCHANGED <<one, req, norm, meta>>

\* fetch_datastream_full (populate) and fetch_new_observations, which raises or returns
\* observations; update_datastreams continues when there are none.
StreamFetch ==
  /\ loop.at = "fetch"
  /\ \/ LoopRaise
     \/ \E none \in BOOLEAN :
          loop' = [loop EXCEPT !.none = none,
                               !.at = IF loop.op = "populate" THEN "rows"
                                      ELSE IF none THEN "for" ELSE "insert"]
  /\ UNCHANGED <<one, req, norm, meta>>

\* The Sensor, ObservedProperty and Datastream rows of populate's pass: their requests
\* raise, or the rows are written in the open transaction.
StreamRows ==
  /\ loop.at = "rows"
  /\ \/ LoopRaise
     \/ loop' = [loop EXCEPT !.at = "insert", !.rowsTxn = @ \cup {loop.ds_id}]
  /\ UNCHANGED <<one, req, norm, meta>>

\* insert_observations commits (every batch, and the rest at the end) unless it is
\* handed no observations: if not observations: return.
Commits(none) == ~none

\* insert_observations of the pass: it raises, before its first commit or after one, or
\* returns; populate then prints "Finished Datastream".
StreamInsert ==
  /\ loop.at = "insert"
  /\ \/ LoopRaise
     \/ /\ Commits(loop.none)
        /\ loop' = [loop EXCEPT !.at = "idle", !.raised = loop.ds_id, !.rowsTxn = {},
                                !.rowsCommitted = @ \cup loop.rowsTxn]
     \/ loop' = [loop EXCEPT !.at = "for",
                             !.rowsTxn = IF Commits(loop.none) THEN {} ELSE @,
                             !.rowsCommitted = IF Commits(loop.none) THEN @ \cup loop.rowsTxn
                                               ELSE @,
                             !.finished = IF loop.op = "populate" THEN @ \cup {loop.ds_id}
                                          ELSE @]
  /\ UNCHANGED <<one, req, norm, meta>>

NextMulti ==
  \/ \E op \in {"populate", "update"}, ds_choice \in 0..MaxStreams : ChooseStreams(op, ds_choice)
  \/ ForStream
  \/ StreamMetadata
  \/ StreamCheck
  \/ StreamConfirm
  \/ StreamFetch
  \/ StreamRows
  \/ StreamInsert

SpecMulti == Init /\ [][NextMulti]_vars

\* ---------------------------------------------------------------- get_api_data
\* get_api_data is called: response = session.get(url, timeout=timeout) begins.
get_api_data ==
  /\ req.outcome # "pending"
  /\ req' = [statuses |-> <<>>, outcome |-> "pending"]
  /\ UNCHANGED <<one, loop, norm, meta>>

\* One attempt of the request ends with status: the adapter tries again while the
\* failure is one it retries and retries are left; otherwise session.get returns the
\* response or raises, and raise_for_status raises on an error status.
session_get(status) ==
  /\ req.outcome = "pending"
  /\ LET attempts == Len(req.statuses) + 1
     IN  req' = [statuses |-> Append(req.statuses, status),
                 outcome |-> IF Retryable(status) /\ attempts <= RETRY_TOTAL
                             THEN "pending"
                             ELSE IF status = 200 THEN "returned" ELSE "raised"]
  /\ UNCHANGED <<one, loop, norm, meta>>

NextRetry ==
  \/ get_api_data
  \/ \E status \in Statuses : session_get(status)

SpecRetry == Init /\ [][NextRetry]_vars

\* ---------------------------------------------------------------- clean_iso_datetime alone
\* A timestamp of second d in every shape of fraction and zone marker: without and with
\* fractional seconds, with no, one and two "Z" at the end.
TimeShapes(d) ==
  {<<"T", DigitChar(d)>> \o fraction \o zone :
     fraction \in {<<>>, <<".", "5">>}, zone \in {<<>>, <<"Z">>, <<"Z", "Z">>}}

ShapedTimes == UNION {TimeShapes(d) : d \in Secs}

\* clean_iso_datetime is called on a and on b.
Normalize(a, b) ==
  /\ norm' = [a |-> a, b |-> b, clean_a |-> clean_iso_datetime(a),
               clean_b |-> clean_iso_datetime(b)]
  /\ UNCHANGED <<one, loop, req, meta>>

NextClean == \E a \in ShapedTimes, b \in ShapedTimes : Normalize(a, b)

SpecClean == Init /\ [][NextClean]_vars

\* ---------------------------------------------------------------- a server without end
\* A server that never answers with an empty page: past the end of what the request
\* selects it goes on with the records from the start.
EndlessPage(f, skip, cap) ==
  LET all == Matching(f)
  IN  [j \in 1..cap |-> all[((skip + j - 1) % Len(all)) + 1]]

\* The plans with a limit of one record or more.
LimitedPlans == {p \in FixedPlans : p.limit >= 1}

InitEndless ==
  /\ InitSync
  /\ remote # <<>>
  /\ plan \in LimitedPlans

\* One request of the fast-mode loop against the server without end.
FastPageEndless ==
  /\ pc = "fast"
  /\ LET filter == FilterFor(fs.start_time, fs.latest_time)
     IN  \/ /\ filter.op # "none"
            /\ filterStatus # 200
            /\ FastError(run, filterStatus)
         \/ \E status \in FailureStatuses : FastError([run EXCEPT !.fault = TRUE], status)
         \/ /\ filter.op = "none" \/ filterStatus = 200
            /\ Matching(filter) # <<>>
            /\ \E cap \in Caps : FastServed(EndlessPage(filter, fs.skip, cap))
  /\ UNCHANGED <<remote, filterStatus, check, dirty, plan, aux>>

\* One request of fetch_all_observations against the server without end.
FallbackPageEndless ==
  /\ pc = "fallback"
  /\ \/ Return([run EXCEPT !.fault = TRUE, !.exit = "error"], fs.observations)
     \/ \E cap \in Caps : FallbackServed(EndlessPage(NoFilter, fs.skip, cap))
  /\ UNCHANGED <<remote, filterStatus, check, dirty, plan, aux>>

NextEndless ==
  \/ populate_single_thing(plan.start_time, plan.limit)
  \/ FastPageEndless
  \/ FallbackPageEndless
  \/ InsertStep

\* The program goes on with its loop: every request is answered or fails.
SpecEndless ==
  /\ InitEndless
  /\ [][NextEndless]_vars
  /\ WF_vars(FastPageEndless)
  /\ WF_vars(FallbackPageEndless)

\* ---------------------------------------------------------------- every limit
\* The server without end and an operator who enters a limit, zero included.
InitLimit ==
  /\ InitSync
  /\ remote # <<>>
  /\ plan.limit >= 0

NextLimit ==
  \/ populate_single_thing(plan.start_time, plan.limit)
  \/ FastPageEndless
  \/ FallbackPageEndless
  \/ InsertStep

SpecLimit == InitLimit /\ [][NextLimit]_vars

\* ---------------------------------------------------------------- a larger collection
\* A static remote that holds more observations than a page and a batch together, and
\* an operator who populates the stream from an empty store.
InitBackfill ==
  /\ remote \in RemotesOfLen(PAGE_SIZE + BATCH_SIZE + 1)
  /\ filterStatus \in FilterStatuses
  /\ committed = <<>>
  /\ txn = <<>>
  /\ foiCommitted = {}
  /\ foiTxn = {}
  /\ pc = "idle"
  /\ run = NoRun
  /\ fs = NoFetch
  /\ ins = NoInsert
  /\ check = NoCheck
  /\ dirty = FALSE
  /\ plan \in FixedPlans
  /\ AuxInit

\* One populate of the stream.
NextBackfill ==
  \/ run.op = "none" /\ populate_single_thing(plan.start_time, plan.limit)
  \/ FastPage
  \/ FallbackPage
  \/ InsertStep

SpecBackfill == InitBackfill /\ [][NextBackfill]_vars

\* ================================================================ claims
\* C8: whenever the newest remote time and the newest local time have the same normal
\* form (as 2024-01-01T00:00:00.500000 and 2024-01-01T00:00:00Z have),
\* get_datastream_check reports up_to_date = true and new_obs_count = 0 and makes no
\* request after the two range lookups.
C8_ShortCircuit ==
  (/\ check # NoCheck
   /\ ~StartsWith(check.newest_db_time, "(")
   /\ ~StartsWith(check.newest_api_time, "(")
   /\ clean_iso_datetime(check.newest_api_time) = clean_iso_datetime(check.newest_db_time))
    => (check.up_to_date /\ check.new_obs_count = 0 /\ check.extra_requests = 0)

\* The check has run on a remote newest with a fractional part and no zone marker and a
\* local newest of the same second.
C8_Witness ==
  /\ check.newest_api_time = <<"T", "1", ".", "5">>
  /\ check.newest_db_time = Whole(1)
  /\ check.up_to_date
  /\ check.new_obs_count = 0

\* C10: a step of the writer on an observation whose id is already in the table leaves
\* the table as it is, and no step of the writer changes or removes a committed row.
C10_Step ==
  /\ \A i \in 1..Len(committed) : i <= Len(committed') /\ committed'[i] = committed[i]
  /\ (pc = "insert" /\ ~(pc' = "idle" /\ ~run'.ok))
       => (fs.observations[ins.i].id \in Ids(View) => committed' \o txn' = View)

C10_NoOverwrite == [][C10_Step]_vars

\* The writer has been handed, and has passed over, a record whose id is in a committed
\* row with another stream id and another time.
C10_Witness ==
  /\ pc = "insert"
  /\ ins.i = 2
  /\ ins.count_since_commit = 1
  /\ \E i \in 1..Len(committed) :
       /\ committed[i].id = fs.observations[1].id
       /\ committed[i].ds # ins.datastream_id
       /\ committed[i].t # clean_iso_datetime(fs.observations[1].t)
       /\ txn = <<>>

\* A run of a fixed plan that ended without an exception and without a failed request.
CleanEnd == pc = "idle" /\ run.op = "populate" /\ run.ok /\ ~run.fault

\* The first run of the plan, on an empty store.
FirstRun == run.latest0 = <<>> /\ ~run.repeat /\ run.resume = 0

\* An observation of the remote at or after start_time, by the instant it names and as
\* strings alike (no start_time: every observation).
AtOrAfter(o, start_time) ==
  ~Truthy(start_time)
    \/ (Instant(o.t) >= Instant(start_time) /\ StrLeq(start_time, o.t))

\* C3: when a sync that failed after committing a batch is run again with the same
\* start time and no limit, against the same remote and with no further failure, the
\* store holds every remote observation at or after the start time once the re-run (and
\* the re-run after it) has ended.
C3_RerunConverges ==
  (CleanEnd /\ plan.limit = NoLimit /\ run.resume = 2)
    => \A i \in 1..Len(remote) :
         AtOrAfter(remote[i], plan.start_time) => remote[i].id \in Ids(committed)

\* C4: a first sync against a server that rejects the filtered query with 400 persists
\* the observations a sync with the same start time and limit persists against a server
\* that honours the filter and the page size (where that one takes the filtered path:
\* a limit within fast mode and a full first page).
C4_FallbackEquivalence ==
  LET filtered == Matching(FilterFor(plan.start_time, <<>>))
  IN  (/\ CleanEnd /\ FirstRun
       /\ filterStatus = 400
       /\ Truthy(plan.start_time)
       /\ FastMode(plan.limit)
       /\ Len(filtered) >= PAGE_SIZE)
        => Ids(committed) = Ids(Take(filtered, plan.limit))

\* C5: a sync run again with the same options right after one that ended without a
\* failure, the remote unchanged, writes nothing: no step of it changes the table.
C5_Step == (run.repeat /\ ~run.fault) => committed' = committed

C5_SecondRunWritesNothing == [][C5_Step]_vars

\* C6: a first sync with max-records L >= 1 and no start time, of a stream with at
\* least L remote observations and none in the store, writes exactly L rows.
C6_ExactlyLimit ==
  (/\ CleanEnd /\ FirstRun
   /\ ~Truthy(plan.start_time)
   /\ plan.limit >= 1
   /\ Len(remote) >= plan.limit)
    => Len(committed) = plan.limit

\* C9: in fallback paging with lower bound T, no page is requested once a record before
\* T has been received, and the records returned are the ones received before the first
\* such record.
C9_EarlyExit ==
  LET T == Or(fs.latest_time, fs.start_time)
  IN  (run.path = "fallback" /\ Truthy(T) /\ pc \in {"fallback", "insert"})
        => /\ pc = "fallback" => \A i \in 1..fs.skip : Instant(remote[i].t) >= Instant(T)
           /\ Len(fs.observations) <= Len(remote)
           /\ \A k \in 1..Len(fs.observations) :
                fs.observations[k] = remote[k] /\ Instant(remote[k].t) >= Instant(T)

\* Fallback paging has ended at a record before T while the remote holds records past
\* the page that record came with.
C9_Witness ==
  /\ pc = "insert"
  /\ run.path = "fallback"
  /\ run.exit = "early"
  /\ Len(remote) > fs.skip + PAGE_SIZE
  /\ Instant(remote[Len(fs.observations) + 1].t) < Instant(Or(fs.latest_time, fs.start_time))

\* C1: the observations table, the rows of the open transaction included, never holds
\* two rows with the same observation id.
C1_NoDuplicateIds == Cardinality(Ids(View)) = Len(View)

\* The writer has gone past an observation the fetched list holds twice, and past one
\* whose id a run before this one had committed.
C1_Witness ==
  /\ pc = "insert"
  /\ \E j, k \in 1..(ins.i - 1) : j < k /\ fs.observations[j].id = fs.observations[k].id
  /\ run.latest0 # <<>>
  /\ \E k \in 1..(ins.i - 1) : fs.observations[k].id \in Ids(committed)

\* C2: an update of a stream with rows in the store, confirmed by the operator and with
\* no failed request, against a remote that does not change while it runs, ends with
\* every remote observation of a later second than the watermark it started from in the
\* store.
C2_UpdatePersistsAll ==
  (/\ pc = "idle" /\ run.op = "update" /\ run.ok /\ ~run.fault
   /\ run.exit # "skipped"
   /\ ~dirty
   /\ run.latest0 # <<>>)
    => \A i \in 1..Len(remote) :
         StrLess(run.latest0, clean_iso_datetime(remote[i].t))
           => remote[i].id \in Ids(committed)

\* C7: the watermark MAX(phenomenon_time_start) of the stream at the end of a run is
\* never lower than the one the run started from, which is the one the run before it
\* ended with.
C7_MonotonicWatermark ==
  (pc = "idle" /\ run.op \in {"populate", "update"})
    => StrLeq(run.latest0, MaxTime(committed, DS))

\* A run that started from a watermark has ended without an error with a higher one.
C7_Witness ==
  /\ pc = "idle"
  /\ run.op \in {"populate", "update"}
  /\ run.ok
  /\ run.latest0 # <<>>
  /\ StrLess(run.latest0, MaxTime(committed, DS))

\* C11: every observation row of the table references a FeatureOfInterest row that is
\* there with it: a committed observation a committed FeatureOfInterest, an observation
\* of the open transaction one that is committed or was inserted in that transaction
\* before it.
C11_FoiBeforeObservation ==
  /\ \A i \in 1..Len(committed) : committed[i].foi \in foiCommitted
  /\ \A i \in 1..Len(txn) : txn[i].foi \in foiCommitted \cup foiTxn

\* The writer has committed an observation with its FeatureOfInterest and holds, in the
\* transaction open now, an observation and the FeatureOfInterest row inserted for it.
C11_Witness ==
  /\ pc = "insert"
  /\ committed # <<>>
  /\ txn # <<>>
  /\ txn[1].foi \in foiTxn
  /\ txn[1].foi \notin foiCommitted

\* C12: while insert_observations runs, the rows executed since the last commit are
\* fewer than BATCH_SIZE whenever a pass of its loop begins, so never more than
\* BATCH_SIZE inside the pass: the pass that executes the BATCH_SIZE-th commits.
C12_BatchBound ==
  pc = "insert"
    => /\ ins.count_since_commit + 1 <= BATCH_SIZE
       /\ Len(txn) <= ins.count_since_commit

\* The writer has committed a full batch inside the loop and goes on with the next
\* record.
C12_Witness ==
  /\ pc = "insert"
  /\ ins.i = BATCH_SIZE + 1
  /\ ins.count_since_commit = 0
  /\ txn = <<>>
  /\ run.commits = 1
  /\ committed # <<>>

\* C13: when insert_observations returns without an exception, every record it was
\* handed is in the committed table.
C13_Step ==
  (pc = "insert" /\ pc' = "idle" /\ run'.ok)
    => \A k \in 1..Len(fs.observations) : fs.observations[k].id \in Ids(committed')

C13_AllCommitted == [][C13_Step]_vars

\* The writer has returned from a list one longer than a batch: a commit inside the loop
\* and the commit of the partial batch after it.
C13_Witness ==
  /\ pc = "idle"
  /\ run.op = "write"
  /\ run.ok
  /\ run.commits = 2
  /\ committed # <<>>

\* C14: when an exception ends the writer, the committed tables are what they were
\* before it (the batches committed so far) and the transaction in flight is gone.
C14_Step ==
  (pc = "insert" /\ pc' = "idle" /\ ~run'.ok)
    => /\ committed' = committed
       /\ foiCommitted' = foiCommitted
       /\ txn' = <<>>
       /\ foiTxn' = {}

C14_RollbackInFlight == [][C14_Step]_vars

\* A populate has failed with rows in flight after a committed batch, and the table
\* holds the batch.
C14_Witness ==
  /\ pc = "idle"
  /\ run.op = "populate"
  /\ ~run.ok
  /\ run.dropped
  /\ run.commits = 1
  /\ run.latest0 = <<>>
  /\ Len(committed) = BATCH_SIZE

\* C15: when the pass of one datastream raised in a run over several, the datastreams
\* that follow it in the run have had their pass when the run is over.
C15_SiblingsProcessed ==
  (loop.at = "idle" /\ loop.raised # 0)
    => \A i \in 1..Len(loop.chosen) : loop.chosen[i] \in loop.begun

\* C16: when a page request of fetch_all_observations failed after observations had
\* been received, and rows of them were committed, the sync does not end as a success.
C16_PartialFailureSurfaced ==
  (pc = "idle" /\ run.exit = "error" /\ run.commits > 0) => ~run.ok

\* C17: an attempt of a request of get_api_data is followed by another only when it
\* ended with status 500, 502, 503, 504, 429 or without a response; a request is
\* re-attempted at most 5 times; a 4xx status other than 429 ends the request, raised
\* to the caller, and as the first status after a single attempt.
C17_RetryOnlyTransient ==
  /\ \A i \in 1..(Len(req.statuses) - 1) :
       req.statuses[i] \in {0, 500, 502, 503, 504, 429}
  /\ Len(req.statuses) <= 5 + 1
  /\ \A i \in 1..Len(req.statuses) :
       (req.statuses[i] \in 400..499 /\ req.statuses[i] # 429)
         => i = Len(req.statuses) /\ req.outcome = "raised"

\* A request was given up after its retries were used on a 503, and another was raised
\* on a 404 after a 429.
C17_Witness ==
  /\ req.outcome = "raised"
  /\ \/ Len(req.statuses) = RETRY_TOTAL + 1 /\ req.statuses[RETRY_TOTAL + 1] = 503
     \/ req.statuses = <<429, 404>>

\* C18: when a count request succeeded and its response has no @iot.count, the count
\* reported is -1 and nothing was raised; reported by get_datastream_check on an empty
\* store, new_obs_count is -1 and up_to_date is false.
C18_MissingCountSentinel ==
  (meta.site # "none" /\ ~meta.count_response.err /\ meta.count_response.body = <<>>)
    => /\ meta.observation_count = [int |-> -1]
       /\ ~meta.raised
       /\ meta.site = "check" => (check.new_obs_count = -1 /\ ~check.up_to_date)

\* C19: of two timestamps of the shapes of the API, clean_iso_datetime gives equal
\* results exactly when they name the same whole second.
C19_EqualIffSameSecond ==
  norm # NoNorm
    => ((norm.clean_a = norm.clean_b) <=> (Instant(norm.a) \div 2 = Instant(norm.b) \div 2))

\* C20: the result of clean_iso_datetime is the whole second of its input (the fraction
\* dropped, not rounded up) followed by one zone marker, and holds no other one.
C20_Canonical ==
  norm # NoNorm
    => /\ ~Contains(norm.clean_a, ".")
       /\ Cardinality({i \in 1..Len(norm.clean_a) : norm.clean_a[i] = "Z"}) = 1
       /\ norm.clean_a = <<"T", DigitChar(Instant(norm.a) \div 2), "Z">>

\* C21: a fetch with no watermark, no start time and no limit against a static remote,
\* no request failing: every page request but the last moves $skip forward within the
\* collection (so the fetch ends), and the list returned is the remote collection, each
\* observation once.
C21_Step ==
  (/\ pc = "fallback" /\ run.op = "populate" /\ ~run'.fault
   /\ fs.latest_time = <<>> /\ fs.start_time = <<>> /\ fs.limit = NoLimit)
    => /\ pc' = "fallback" => (fs.skip < fs'.skip /\ fs'.skip <= Len(remote))
       /\ pc' = "insert" => fs'.observations = remote
       /\ pc' = "idle" => remote = <<>>

C21_FullBackfill == [][C21_Step]_vars

\* A full backfill has returned a collection of more than two pages.
C21_Witness ==
  /\ pc = "insert" /\ run.op = "populate" /\ ~run.fault
  /\ fs.latest_time = <<>> /\ fs.start_time = <<>> /\ fs.limit = NoLimit
  /\ Len(remote) > 2 * PAGE_SIZE - 1
  /\ fs.observations = remote
  /\ Cardinality(Ids(fs.observations)) = Len(remote)

\* C22: the writer requests no FeatureOfInterest id from the remote twice.
C22_FoiFetchedOnce ==
  \A j, k \in 1..Len(ins.foi_fetched) : j < k => ins.foi_fetched[j] # ins.foi_fetched[k]

\* C23: a sync that starts with a watermark in the store or with a start time begins in
\* the filtered loop, whose requests carry $filter, whatever its limit.
C23_Step ==
  (/\ pc = "idle" /\ pc' \in {"fast", "fallback"}
   /\ Truthy(fs'.latest_time) \/ Truthy(fs'.start_time))
    => /\ pc' = "fast"
       /\ FilterFor(fs'.start_time, fs'.latest_time).op # "none"

C23_FilteredFirst == [][C23_Step]_vars

\* C24: no sync fails on a 4xx response other than 429 to its filtered query: the
\* fetch goes on in fallback paging.
C24_PermanentErrorFallsBack ==
  (pc = "idle" /\ run.path = "filtered" /\ run.status \in 400..499 /\ run.status # 429)
    => run.ok

\* C25: a first page of the filtered loop that is shorter than the page size is
\* discarded and the fetch starts fallback paging anew with the same times and limit
\* (a first page that is kept is a full one); and what fallback paging returns, no
\* request failing, is what the loop of fetch_all_observations yields on the remote
\* collection for that lower bound and limit.
C25_Step ==
  LET filter == FilterFor(fs.start_time, fs.latest_time)
      result == IF pc' = "insert" THEN fs'.observations ELSE <<>>
  IN  /\ (/\ pc = "fast" /\ fs.page_num = 0 /\ ~run'.fault
          /\ filter.op = "none" \/ filterStatus = 200)
           => IF pc' = "fallback"
              THEN /\ fs' = [fs EXCEPT !.observations = <<>>, !.skip = 0, !.page_num = 0]
                   /\ \E cap \in 1..PAGE_SIZE : Len(Page(filter, 0, cap)) < PAGE_SIZE
              ELSE Len(Matching(filter)) >= PAGE_SIZE
      /\ (pc = "fallback" /\ pc' # "fallback" /\ ~run'.fault)
           => result = ScanPage(remote, 1, <<>>, Or(fs.latest_time, fs.start_time),
                                fs.limit).observations

C25_ShortFirstPage == [][C25_Step]_vars

\* A fetch with a start time and a limit within fast mode, against a server that
\* honours the filter and holds a full page of matching records, has returned from
\* fallback paging.
C25_Witness ==
  /\ pc = "insert" /\ run.path = "fallback" /\ ~run.fault
  /\ FastMode(fs.limit) /\ Truthy(fs.start_time) /\ filterStatus = 200
  /\ Len(Matching(FilterFor(fs.start_time, fs.latest_time))) >= PAGE_SIZE
  /\ Len(fs.observations) >= PAGE_SIZE

\* C26: every record fallback paging returns is one the filtered query of the sync
\* would return: at or after the start time when there is one, else after the
\* watermark when there is one.
C26_FallbackBound ==
  (pc = "insert" /\ run.path = "fallback")
    => \A k \in 1..Len(fs.observations) :
         Matches(fs.observations[k], FilterFor(fs.start_time, fs.latest_time))

\* C27: a page request of a fetch that the server answers with an empty page (the
\* request asks for records past the end of what it selects) is the last page request
\* of that fetch.
C27_Step ==
  LET filter == FilterFor(fs.start_time, fs.latest_time)
  IN  /\ (/\ pc = "fast" /\ ~run'.fault
          /\ filter.op = "none" \/ filterStatus = 200
          /\ fs.skip >= Len(Matching(filter)))
           => pc' \notin {"fast", "fallback"}
      /\ (pc = "fallback" /\ ~run'.fault /\ fs.skip >= Len(remote))
           => pc' \notin {"fast", "fallback"}

C27_EmptyPageEnds == [][C27_Step]_vars

\* C28: a fetch with a limit of L >= 1 against a server that never answers with an
\* empty page comes to an end, and it ends with at most L records collected.
C28_LimitTerminates ==
  /\ (pc \in {"fast", "fallback"}) ~> (pc \notin {"fast", "fallback"})
  /\ [](pc = "insert" => Len(fs.observations) <= fs.limit)

\* Fallback paging has been stopped by the limit, no record being older than the lower
\* bound, after more than one page.
C28_Witness ==
  /\ pc = "insert" /\ run.path = "fallback" /\ run.exit = "limit" /\ ~run.fault
  /\ Len(fs.observations) = fs.limit
  /\ fs.limit > PAGE_SIZE
  /\ fs.limit > Len(remote)

\* C29: in the filtered loop and in the fallback loop, the $skip of the next request is
\* the number of records received in the pages of that loop so far, and the records
\* collected are the first $skip records of what the requests select: none is left out
\* after a short page.
C29_SkipCountsReceived ==
  /\ pc = "fast" =>
       /\ fs.skip = Len(fs.observations)
       /\ fs.skip > 0 =>
            fs.observations = SubSeq(Matching(FilterFor(fs.start_time, fs.latest_time)), 1, fs.skip)
  /\ pc = "fallback" =>
       /\ fs.skip = Len(fs.observations)
       /\ fs.observations = SubSeq(remote, 1, fs.skip)

\* Fallback paging is about to send a request after a full page and a short one, with
\* records left to fetch.
C29_Witness ==
  /\ pc = "fallback"
  /\ fs.skip = PAGE_SIZE + 1
  /\ Len(remote) > fs.skip
  /\ fs.limit = NoLimit
  /\ fs.observations = SubSeq(remote, 1, PAGE_SIZE + 1)

\* C30: a page request of a sync whose transient failure (5xx, 429, no response) ends
\* the fetch has been attempted more than once.
C30_PageRequestsRetried ==
  (run.attempts > 0 /\ (run.status = 0 \/ run.status = 429 \/ run.status \in 500..599))
    => run.attempts > 1

\* C31: at every moment of a sync, the records received from the remote and not yet
\* handed to an INSERT are at most a page and a batch.
C31_BoundedBuffer ==
  LET unwritten == IF pc = "insert" THEN Len(fs.observations) - (ins.i - 1)
                   ELSE Len(fs.observations)
  IN  unwritten <= PAGE_SIZE + BATCH_SIZE

\* C32: in every result of get_datastream_check, up_to_date is true exactly when
\* new_obs_count is 0; the unknown count -1 never comes with up_to_date = true.
C32_UpToDateIffZero ==
  /\ check.up_to_date <=> check.new_obs_count = 0
  /\ ~(check.new_obs_count = -1 /\ check.up_to_date)

\* The direct comparison has found the store up to date: the newest remote time is of
\* an earlier second than the newest local one.
C32_Witness ==
  /\ check.extra_requests = 1
  /\ ~StartsWith(check.newest_db_time, "(")
  /\ ~StartsWith(check.newest_api_time, "(")
  /\ clean_iso_datetime(check.newest_api_time) # clean_iso_datetime(check.newest_db_time)
  /\ check.up_to_date
  /\ check.new_obs_count = 0

\* C33: when a populate has ended without an error, the rows of the Thing and of every
\* datastream it finished (sensor, observed property, datastream) are committed.
C33_RowsCommitted ==
  (loop.op = "populate" /\ loop.at = "idle" /\ loop.raised = 0)
    => \A d \in loop.finished : {THING, d} \subseteq loop.rowsCommitted

\* A loop of requests (the filtered pages, or the pages of fetch_all_observations) ends
\* in this step, with no request of the operation failed, at an empty page or at a
\* record before the lower bound.
PassEnds ==
  /\ pc \in {"fast", "fallback"}
  /\ pc' \notin {"fast", "fallback"}
  /\ run'.ok /\ ~run'.fault
  /\ run'.exit \in {"empty", "early"}

\* The observations the loop that is running was to return when it made its start: the
\* ones the remote held then that are within its lower bound.
Due ==
  LET within(o) == IF pc = "fast" THEN Matches(o, FilterFor(fs.start_time, fs.latest_time))
                   ELSE AtOrAfter(o, Or(fs.latest_time, fs.start_time))
  IN  {remote[i].id : i \in {j \in 1..Len(remote) : remote[j].id <= fs.known /\ within(remote[j])}}

Times(id, list) == Cardinality({k \in 1..Len(list) : list[k].id = id})

\* C34: when observations were recorded upstream while a loop of skip-based requests,
\* newest first, was under way, the loop returns every observation the remote held
\* within the lower bound when it made its start, and none of them more than twice.
C34_Step ==
  LET result == IF pc' = "insert" THEN fs'.observations ELSE <<>>
  IN  (PassEnds /\ fs.known < Len(remote)) => \A id \in Due : Times(id, result) \in 1..2

C34_UpstreamInserts == [][C34_Step]_vars

\* C35: fetch_new_observations called with a limit L >= 0 hands its caller at most L
\* records, whichever way it took: the filtered pages, the fallback after a short first
\* page, the fallback at once, or the fallback after an HTTP error. (With none to hand
\* over the operation ends; with some, insert_observations runs on them.)
C35_AtMostLimit ==
  (pc = "insert" /\ fs.limit >= 0) => Len(fs.observations) <= fs.limit

\* The fallback after the server answered the filtered request with 400 was stopped by
\* a limit of more than a page, with as many records as the limit.
C35_Witness ==
  /\ pc = "insert"
  /\ run.path = "fallback"
  /\ ~run.fault
  /\ filterStatus = 400
  /\ FastMode(fs.limit)
  /\ FilterFor(fs.start_time, fs.latest_time).op # "none"
  /\ fs.limit > PAGE_SIZE
  /\ Len(fs.observations) = fs.limit

====
